---------------------------- MODULE Spec2Model ----------------------------
(***************************************************************************)
(* Model of contracts/Messages.sol (wormhole core bridge, batch-VAA        *)
(* branch): the VAA parsers (parseVM, parseVM2, parseVM3), the guardian    *)
(* quorum verification (verifyHeader, verifySignatures, quorum) and the    *)
(* verified-hash cache written by parseAndVerifyVM2 and wipeBatchCache.    *)
(*                                                                         *)
(* Byte strings are sequences over 0..255 with the widths of the source.   *)
(* A Solidity call either returns or reverts: every modelled function      *)
(* yields a record with ok = FALSE and the revert reason in err when the   *)
(* source would revert at that point.                                      *)
(***************************************************************************)
EXTENDS Integers, Sequences, FiniteSets, TLC

(***************************************************************************)
(* Bounds of the model.                                                    *)
(***************************************************************************)
\* longest signature list enumerated; guardian indices range over 0..MaxSigs
MaxSigs == 3
\* block.timestamp ranges over 0..MaxTime
MaxTime == 1
\* quorum() is called with every guardian count in 0..MaxGuardianCount
MaxGuardianCount == 257

(***************************************************************************)
(* Byte-string helpers.                                                    *)
(***************************************************************************)
Zeros(n) == [i \in 1..n |-> 0]

\* big-endian bytes of v, n bytes wide
RECURSIVE BE(_, _)
BE(v, n) == IF n = 0 THEN <<>> ELSE Append(BE(v \div 256, n - 1), v % 256)

\* big-endian value of the byte string b
RECURSIVE BEValue(_)
BEValue(b) ==
    IF Len(b) = 0 THEN 0
    ELSE 256 * BEValue(SubSeq(b, 1, Len(b) - 1)) + b[Len(b)]

RECURSIVE Concat(_)
Concat(ss) == IF Len(ss) = 0 THEN <<>> ELSE Head(ss) \o Concat(Tail(ss))

\* F(e), with e evaluated once (a local variable of the source)
Bind(e, F(_)) == CHOOSE r \in {F(x) : x \in {e}} : TRUE

(***************************************************************************)
(* BytesLib (contracts/libraries/external/BytesLib.sol): bounds-checked    *)
(* reads at a 0-based offset.  A read past the end reverts.                *)
(***************************************************************************)
ReadFixed(b, start, n) ==
    IF Len(b) >= start + n
    THEN [ok |-> TRUE, val |-> SubSeq(b, start + 1, start + n)]
    ELSE [ok |-> FALSE, val |-> <<>>]

toUint8(b, start) ==
    LET r == ReadFixed(b, start, 1)
    IN  [ok |-> r.ok, val |-> IF r.ok THEN r.val[1] ELSE 0]

toUint16(b, start) ==
    LET r == ReadFixed(b, start, 2)
    IN  [ok |-> r.ok, val |-> IF r.ok THEN BEValue(r.val) ELSE 0]

toUint32(b, start) ==
    LET r == ReadFixed(b, start, 4)
    IN  [ok |-> r.ok, val |-> IF r.ok THEN BEValue(r.val) ELSE 0]

toUint64(b, start) ==
    LET r == ReadFixed(b, start, 8)
    IN  [ok |-> r.ok, val |-> IF r.ok THEN BEValue(r.val) ELSE 0]

toBytes32(b, start) == ReadFixed(b, start, 32)

slice(b, start, length) == ReadFixed(b, start, length)

(***************************************************************************)
(* keccak256 and ecrecover are EVM primitives.  keccak256 is modelled by a *)
(* deterministic 32-byte digest of the whole input (length included), and  *)
(* a signature (v, r, s) by the digest it signs (r) and the signer's       *)
(* address (low 20 bytes of s): ecrecover yields the signer when the       *)
(* signature is over the given hash and the zero address otherwise.        *)
(***************************************************************************)
\* position-weighted sum of the bytes lo..hi of b, by halves
RECURSIVE Absorb(_, _, _)
Absorb(b, lo, hi) ==
    IF lo > hi THEN 0
    ELSE IF lo = hi THEN ((b[lo] + 1) * (37 * lo + 11)) % 65521
    ELSE LET mid == (lo + hi) \div 2
         IN  (Absorb(b, lo, mid) + Absorb(b, mid + 1, hi)) % 65521

keccak256(b) ==
    LET d == (Absorb(b, 1, Len(b)) + 7 * Len(b) + 5) % 65521
    IN  <<1 + (d % 2)>> \o Zeros(29) \o <<d \div 256, d % 256>>

\* keccak256(abi.encodePacked(keccak256(body)))
DoubleHash(body) == keccak256(keccak256(body))

ZeroAddress == Zeros(20)

ecrecover(hash, v, r, s) ==
    IF v \in {27, 28} /\ r = hash THEN SubSeq(s, 13, 32) ELSE ZeroAddress

(***************************************************************************)
(* Structs.sol values.                                                     *)
(***************************************************************************)
EmptyObservation ==
    [timestamp |-> 0, nonce |-> 0, emitterChainId |-> 0,
     emitterAddress |-> Zeros(32), sequence |-> 0, consistencyLevel |-> 0,
     payload |-> <<>>]

\* a reverted call: nothing is returned but the reason
Revert(reason) == [ok |-> FALSE, err |-> reason]

(***************************************************************************)
(* Parsers.                                                                *)
(***************************************************************************)
\* bytes of the fixed observation prefix: 4 + 4 + 2 + 32 + 8 + 1
ObservationPrefix == 51

\* bytes of one signature record: 1 + 32 + 32 + 1
SignatureSize == 66

\* parseObservation without the consistencyLevel byte
parseObservationShortPrefix(start, length, encodedObservation) ==
    LET timestamp        == toUint32(encodedObservation, start)
        nonce            == toUint32(encodedObservation, start + 4)
        emitterChainId   == toUint16(encodedObservation, start + 8)
        emitterAddress   == toBytes32(encodedObservation, start + 10)
        sequence         == toUint64(encodedObservation, start + 42)
        index            == start + ObservationPrefix - 1
        consumed         == index - start
        payload          == slice(encodedObservation, index, length - consumed)
    IN  IF ~(timestamp.ok /\ nonce.ok /\ emitterChainId.ok /\ emitterAddress.ok
             /\ sequence.ok)
        THEN Revert("truncated")
        ELSE IF ~(length >= consumed)
        THEN Revert("Insufficient observation length")
        ELSE IF ~payload.ok
        THEN Revert("truncated")
        ELSE [ok |-> TRUE, err |-> "",
              observation |->
                [timestamp |-> timestamp.val, nonce |-> nonce.val,
                 emitterChainId |-> emitterChainId.val,
                 emitterAddress |-> emitterAddress.val,
                 sequence |-> sequence.val,
                 consistencyLevel |-> 0,
                 payload |-> payload.val]]

parseObservation(start, length, encodedObservation) ==
    LET timestamp        == toUint32(encodedObservation, start)
        nonce            == toUint32(encodedObservation, start + 4)
        emitterChainId   == toUint16(encodedObservation, start + 8)
        emitterAddress   == toBytes32(encodedObservation, start + 10)
        sequence         == toUint64(encodedObservation, start + 42)
        consistencyLevel == toUint8(encodedObservation, start + 50)
        index            == start + ObservationPrefix
        consumed         == index - start
        payload          == slice(encodedObservation, index, length - consumed)
    IN  IF ~(timestamp.ok /\ nonce.ok /\ emitterChainId.ok /\ emitterAddress.ok
             /\ sequence.ok /\ consistencyLevel.ok)
        THEN Revert("truncated")
        ELSE IF ~(length >= consumed)
        THEN Revert("Insufficient observation length")
        ELSE IF ~payload.ok
        THEN Revert("truncated")
        ELSE [ok |-> TRUE, err |-> "",
              observation |->
                [timestamp |-> timestamp.val, nonce |-> nonce.val,
                 emitterChainId |-> emitterChainId.val,
                 emitterAddress |-> emitterAddress.val,
                 sequence |-> sequence.val,
                 consistencyLevel |-> consistencyLevel.val,
                 payload |-> payload.val]]

\* one iteration of the loop of parseSignatures, reading at index
parseSignature(index, data) ==
    LET guardianIndex == toUint8(data, index)
        r             == toBytes32(data, index + 1)
        s             == toBytes32(data, index + 33)
        v             == toUint8(data, index + 65)
    IN  IF ~(guardianIndex.ok /\ r.ok /\ s.ok /\ v.ok)
        THEN Revert("truncated")
        ELSE IF v.val + 27 > 255
        THEN Revert("overflow")
        ELSE [ok |-> TRUE, err |-> "",
              sig |-> [guardianIndex |-> guardianIndex.val, r |-> r.val,
                       s |-> s.val, v |-> v.val + 27]]

parseSignatures(start, signersLen, data) ==
    Bind([i \in 1..signersLen |->
             parseSignature(start + SignatureSize * (i - 1), data)],
         LAMBDA each :
            IF \E i \in 1..signersLen : ~each[i].ok
            THEN Revert(each[CHOOSE i \in 1..signersLen :
                                /\ ~each[i].ok
                                /\ \A j \in 1..(i - 1) : each[j].ok].err)
            ELSE [ok |-> TRUE, err |-> "",
                  signatures |-> [i \in 1..signersLen |-> each[i].sig]])

\* the VM struct parseVM fills in
VMStruct(version, guardianSetIndex, signatures, hash, observation) ==
    [version |-> version,
     guardianSetIndex |-> guardianSetIndex,
     signatures |-> signatures,
     hash |-> hash,
     timestamp |-> observation.timestamp,
     nonce |-> observation.nonce,
     emitterChainId |-> observation.emitterChainId,
     emitterAddress |-> observation.emitterAddress,
     sequence |-> observation.sequence,
     consistencyLevel |-> observation.consistencyLevel,
     payload |-> observation.payload]

\* parseVM hashing the whole buffer instead of the body
parseVMHashingAll(encodedVM) ==
    LET version    == toUint8(encodedVM, 0)
        gsi        == toUint32(encodedVM, 1)
        signersLen == toUint8(encodedVM, 5)
        index      == 6 + SignatureSize * signersLen.val
        body       == slice(encodedVM, 0, Len(encodedVM))
    IN  IF ~version.ok THEN Revert("truncated")
        ELSE IF version.val # 1 THEN Revert("VM version incompatible")
        ELSE IF ~gsi.ok \/ ~signersLen.ok THEN Revert("truncated")
        ELSE Bind(parseSignatures(6, signersLen.val, encodedVM), LAMBDA sigs :
            IF ~sigs.ok THEN Revert(sigs.err)
            ELSE IF ~body.ok THEN Revert("truncated")
            ELSE Bind(parseObservation(index, Len(encodedVM) - index, encodedVM),
                      LAMBDA obs :
                IF ~obs.ok THEN Revert(obs.err)
                ELSE [ok |-> TRUE, err |-> "",
                      vm |-> VMStruct(version.val, gsi.val, sigs.signatures,
                                      DoubleHash(body.val), obs.observation)]))

parseVM(encodedVM) ==
    LET version    == toUint8(encodedVM, 0)
        gsi        == toUint32(encodedVM, 1)
        signersLen == toUint8(encodedVM, 5)
        index      == 6 + SignatureSize * signersLen.val
        body       == slice(encodedVM, index, Len(encodedVM) - index)
    IN  IF ~version.ok THEN Revert("truncated")
        ELSE IF version.val # 1 THEN Revert("VM version incompatible")
        ELSE IF ~gsi.ok \/ ~signersLen.ok THEN Revert("truncated")
        ELSE Bind(parseSignatures(6, signersLen.val, encodedVM), LAMBDA sigs :
            IF ~sigs.ok THEN Revert(sigs.err)
            ELSE IF ~body.ok THEN Revert("truncated")
            ELSE Bind(parseObservation(index, Len(encodedVM) - index, encodedVM),
                      LAMBDA obs :
                IF ~obs.ok THEN Revert(obs.err)
                ELSE [ok |-> TRUE, err |-> "",
                      vm |-> VMStruct(version.val, gsi.val, sigs.signatures,
                                      DoubleHash(body.val), obs.observation)]))

\* the observation loop of parseVM2, from its i-th iteration on: the length
\* is read as a uint32 at index and the cursor advances by one byte
RECURSIVE parseBatchObservations(_, _, _)
parseBatchObservations(encodedVM, index, remaining) ==
    IF remaining = 0 THEN [ok |-> TRUE, err |-> "", observations |-> <<>>]
    ELSE LET observationLen == toUint32(encodedVM, index)
             raw  == slice(encodedVM, index + 1, observationLen.val)
             rest == parseBatchObservations(encodedVM,
                        index + 1 + observationLen.val, remaining - 1)
         IN  IF ~observationLen.ok \/ ~raw.ok THEN Revert("truncated")
             ELSE IF ~rest.ok THEN rest
             ELSE [ok |-> TRUE, err |-> "",
                   observations |-> <<(<<3>> \o raw.val)>> \o rest.observations]

parseVM2(encodedVM) ==
    LET version    == toUint8(encodedVM, 0)
        gsi        == toUint32(encodedVM, 1)
        signersLen == toUint8(encodedVM, 5)
        index      == 6 + SignatureSize * signersLen.val
        hashesLen  == toUint8(encodedVM, index)
        \* hashesLen * 32 is computed in uint8
        bodyLen    == hashesLen.val * 32
        body       == slice(encodedVM, index, bodyLen)
        hashes     == [i \in 1..hashesLen.val |->
                          toBytes32(encodedVM, index + 32 * (i - 1)).val]
        index2     == index + 32 * hashesLen.val
        observationsLen == toUint8(encodedVM, index2)
    IN  IF ~version.ok THEN Revert("truncated")
        ELSE IF version.val # 2 THEN Revert("VM version incompatible")
        ELSE IF ~gsi.ok \/ ~signersLen.ok THEN Revert("truncated")
        ELSE Bind(parseSignatures(6, signersLen.val, encodedVM), LAMBDA sigs :
            IF ~sigs.ok THEN Revert(sigs.err)
            ELSE IF ~hashesLen.ok THEN Revert("truncated")
            ELSE IF bodyLen > 255 THEN Revert("overflow")
            ELSE IF ~body.ok THEN Revert("truncated")
            ELSE IF ~observationsLen.ok THEN Revert("truncated")
            ELSE Bind(parseBatchObservations(encodedVM, index2,
                                             observationsLen.val), LAMBDA obs :
                IF ~obs.ok THEN Revert(obs.err)
                ELSE [ok |-> TRUE, err |-> "",
                      vm |-> [header |-> [version |-> version.val,
                                          guardianSetIndex |-> gsi.val,
                                          signatures |-> sigs.signatures,
                                          hash |-> DoubleHash(body.val),
                                          hashes |-> hashes],
                              observations |-> obs.observations]]))

parseVM3(encodedVM) ==
    LET version == toUint8(encodedVM, 3)
        index   == 4
        body    == slice(encodedVM, index, Len(encodedVM) - index)
    IN  IF ~version.ok THEN Revert("truncated")
        ELSE IF version.val # 3 THEN Revert("VM version incompatible")
        ELSE Bind(parseObservation(index, Len(encodedVM), encodedVM),
                  LAMBDA obs :
            IF ~obs.ok THEN Revert(obs.err)
            ELSE IF ~body.ok THEN Revert("truncated")
            ELSE [ok |-> TRUE, err |-> "",
                  vm |-> [version |-> version.val,
                          observation |-> obs.observation,
                          hash |-> DoubleHash(body.val)]])

(***************************************************************************)
(* The guardian registry (Getters.sol: getGuardianSet and                  *)
(* getCurrentGuardianSetIndex), read-only here.  An unknown index reads as *)
(* the empty set, as a Solidity mapping does.                              *)
(*   0: no keys                                                            *)
(*   1: four keys, superseded, expires at time 1                           *)
(*   2: one key, the current set, expirationTime 0                         *)
(*   3: one key, superseded, expirationTime 0                              *)
(*   4: 256 keys, superseded, expires at time 1                            *)
(***************************************************************************)
GuardianKey(i) == Zeros(18) \o BE(i + 1, 2)

\* the keys of the largest guardian set registered
LargeGuardianSetKeys == [i \in 1..256 |-> GuardianKey(i - 1)]

CurrentGuardianSetIndex == 2

GuardianSetIndices == 0..4

getGuardianSet(index) ==
    CASE index = 1 -> [keys |-> [i \in 1..4 |-> GuardianKey(i - 1)],
                       expirationTime |-> 1]
      [] index = 2 -> [keys |-> <<GuardianKey(0)>>, expirationTime |-> 0]
      [] index = 3 -> [keys |-> <<GuardianKey(1)>>, expirationTime |-> 0]
      [] index = 4 -> [keys |-> LargeGuardianSetKeys, expirationTime |-> 1]
      [] OTHER     -> [keys |-> <<>>, expirationTime |-> 0]

getCurrentGuardianSetIndex == CurrentGuardianSetIndex

(***************************************************************************)
(* Verification.  An outcome is either thrown (ok = FALSE, the revert      *)
(* reason in err) or returned (ok = TRUE with the pair (valid, reason));   *)
(* recovered counts the ecrecover evaluations the call made.               *)
(***************************************************************************)
Thrown(why) ==
    [ok |-> FALSE, err |-> why, valid |-> FALSE, reason |-> "", recovered |-> 0]

Returned(valid, reason, recovered) ==
    [ok |-> TRUE, err |-> "", valid |-> valid, reason |-> reason,
     recovered |-> recovered]

\* quorum with the division done before the multiplication
quorumDivideFirst(numGuardians) ==
    IF ~(numGuardians < 256)
    THEN [ok |-> FALSE, err |-> "too many guardians", val |-> 0]
    ELSE [ok |-> TRUE, err |-> "", val |-> ((numGuardians \div 3) * 2) + 1]

\* quorum admitting 256 guardians
quorumUpTo256(numGuardians) ==
    IF ~(numGuardians <= 256)
    THEN [ok |-> FALSE, err |-> "too many guardians", val |-> 0]
    ELSE [ok |-> TRUE, err |-> "", val |-> ((numGuardians * 2) \div 3) + 1]

\* quorum without the final + 1
quorumTwoThirds(numGuardians) ==
    IF ~(numGuardians < 256)
    THEN [ok |-> FALSE, err |-> "too many guardians", val |-> 0]
    ELSE [ok |-> TRUE, err |-> "", val |-> (numGuardians * 2) \div 3]

quorum(numGuardians) ==
    IF ~(numGuardians < 256)
    THEN [ok |-> FALSE, err |-> "too many guardians", val |-> 0]
    ELSE [ok |-> TRUE, err |-> "", val |-> ((numGuardians * 2) \div 3) + 1]

\* the loop of verifySignatures with the order check admitting an equal index
RECURSIVE verifySignaturesRepeating(_, _, _, _, _)
verifySignaturesRepeating(hash, signatures, guardianSet, i, lastIndex) ==
    IF i > Len(signatures) THEN Returned(TRUE, "", i - 1)
    ELSE LET sig == signatures[i]
             guardianCount == Len(guardianSet.keys)
         IN  IF ~(i = 1 \/ sig.guardianIndex >= lastIndex)
             THEN Thrown("signature indices must be ascending")
             ELSE IF ~(sig.guardianIndex < guardianCount)
             THEN Thrown("guardian index out of bounds")
             ELSE IF ecrecover(hash, sig.v, sig.r, sig.s)
                        # guardianSet.keys[sig.guardianIndex + 1]
             THEN Returned(FALSE, "VM signature invalid", i)
             ELSE verifySignaturesRepeating(hash, signatures, guardianSet, i + 1,
                       sig.guardianIndex)

\* the loop of verifySignatures with the order and range failures returned
RECURSIVE verifySignaturesReturning(_, _, _, _, _)
verifySignaturesReturning(hash, signatures, guardianSet, i, lastIndex) ==
    IF i > Len(signatures) THEN Returned(TRUE, "", i - 1)
    ELSE LET sig == signatures[i]
             guardianCount == Len(guardianSet.keys)
         IN  IF ~(i = 1 \/ sig.guardianIndex > lastIndex)
             THEN Returned(FALSE, "signature indices must be ascending", i - 1)
             ELSE IF ~(sig.guardianIndex < guardianCount)
             THEN Returned(FALSE, "guardian index out of bounds", i - 1)
             ELSE IF ecrecover(hash, sig.v, sig.r, sig.s)
                        # guardianSet.keys[sig.guardianIndex + 1]
             THEN Returned(FALSE, "VM signature invalid", i)
             ELSE verifySignaturesReturning(hash, signatures, guardianSet, i + 1,
                       sig.guardianIndex)

\* the loop of verifySignatures stopping at a mismatch only on the last entry
RECURSIVE verifySignaturesLenient(_, _, _, _, _)
verifySignaturesLenient(hash, signatures, guardianSet, i, lastIndex) ==
    IF i > Len(signatures) THEN Returned(TRUE, "", i - 1)
    ELSE LET sig == signatures[i]
             guardianCount == Len(guardianSet.keys)
         IN  IF ~(i = 1 \/ sig.guardianIndex > lastIndex)
             THEN Thrown("signature indices must be ascending")
             ELSE IF ~(sig.guardianIndex < guardianCount)
             THEN Thrown("guardian index out of bounds")
             ELSE IF i = Len(signatures) /\ ecrecover(hash, sig.v, sig.r, sig.s)
                        # guardianSet.keys[sig.guardianIndex + 1]
             THEN Returned(FALSE, "VM signature invalid", i)
             ELSE verifySignaturesLenient(hash, signatures, guardianSet, i + 1,
                       sig.guardianIndex)

\* the loop of verifySignatures from iteration i (1-based) on, lastIndex
\* being the guardianIndex of the previous iteration
RECURSIVE verifySignaturesFrom(_, _, _, _, _)
verifySignaturesFrom(hash, signatures, guardianSet, i, lastIndex) ==
    IF i > Len(signatures) THEN Returned(TRUE, "", i - 1)
    ELSE LET sig == signatures[i]
             guardianCount == Len(guardianSet.keys)
         IN  IF ~(i = 1 \/ sig.guardianIndex > lastIndex)
             THEN Thrown("signature indices must be ascending")
             ELSE IF ~(sig.guardianIndex < guardianCount)
             THEN Thrown("guardian index out of bounds")
             ELSE IF ecrecover(hash, sig.v, sig.r, sig.s)
                        # guardianSet.keys[sig.guardianIndex + 1]
             THEN Returned(FALSE, "VM signature invalid", i)
             ELSE verifySignaturesFrom(hash, signatures, guardianSet, i + 1,
                                       sig.guardianIndex)

\* verifySignatures refusing an empty list
verifySignaturesNonEmpty(hash, signatures, guardianSet) ==
    IF Len(signatures) = 0 THEN Returned(FALSE, "VM signature invalid", 0)
    ELSE verifySignaturesFrom(hash, signatures, guardianSet, 1, 0)

verifySignatures(hash, signatures, guardianSet) ==
    verifySignaturesFrom(hash, signatures, guardianSet, 1, 0)

\* cache: the set of hashes whose verified flag is true; now: block.timestamp
verifiedHashCached(cache, hash) == hash \in cache

updateVerifiedCacheStatus(cache, hash, verified) ==
    IF verified THEN cache \cup {hash} ELSE cache \ {hash}

\* the expiry condition without the exemption of the current set
guardianSetExpiredAnySet(vm, guardianSet, now) ==
    guardianSet.expirationTime < now

\* the condition of the expiry step of verifyHeader
guardianSetExpired(vm, guardianSet, now) ==
    /\ vm.guardianSetIndex # getCurrentGuardianSetIndex
    /\ guardianSet.expirationTime < now

\* verifyHeader consulting the cache only after the guardian-set checks
verifyHeaderLateCache(vm, cache, now) ==
    LET guardianSet == getGuardianSet(vm.guardianSetIndex)
        q == quorum(Len(guardianSet.keys))
    IN  IF Len(guardianSet.keys) = 0
        THEN Returned(FALSE, "invalid guardian set", 0)
        ELSE IF guardianSetExpired(vm, guardianSet, now)
        THEN Returned(FALSE, "guardian set has expired", 0)
        ELSE IF verifiedHashCached(cache, vm.hash) THEN Returned(TRUE, "", 0)
        ELSE IF ~q.ok THEN Thrown(q.err)
        ELSE IF Len(vm.signatures) < q.val
        THEN Returned(FALSE, "no quorum", 0)
        ELSE Bind(verifySignatures(vm.hash, vm.signatures, guardianSet),
                  LAMBDA checked :
            IF ~checked.ok THEN checked
            ELSE IF ~checked.valid
            THEN Returned(FALSE, checked.reason, checked.recovered)
            ELSE Returned(TRUE, "", checked.recovered))

\* verifyHeader not passing on the reason verifySignatures gives
verifyHeaderDroppingReason(vm, cache, now) ==
    IF verifiedHashCached(cache, vm.hash) THEN Returned(TRUE, "", 0)
    ELSE LET guardianSet == getGuardianSet(vm.guardianSetIndex)
             q == quorum(Len(guardianSet.keys))
         IN  IF Len(guardianSet.keys) = 0
             THEN Returned(FALSE, "invalid guardian set", 0)
             ELSE IF guardianSetExpired(vm, guardianSet, now)
             THEN Returned(FALSE, "guardian set has expired", 0)
             ELSE IF ~q.ok THEN Thrown(q.err)
             ELSE IF Len(vm.signatures) < q.val
             THEN Returned(FALSE, "no quorum", 0)
             ELSE Bind(verifySignatures(vm.hash, vm.signatures, guardianSet),
                       LAMBDA checked :
                 IF ~checked.ok THEN checked
                 ELSE IF ~checked.valid
                 THEN Returned(FALSE, "", checked.recovered)
                 ELSE Returned(TRUE, "", checked.recovered))

\* verifyHeader with the quorum step before the expiry step
verifyHeaderQuorumFirst(vm, cache, now) ==
    IF verifiedHashCached(cache, vm.hash) THEN Returned(TRUE, "", 0)
    ELSE LET guardianSet == getGuardianSet(vm.guardianSetIndex)
             q == quorum(Len(guardianSet.keys))
         IN  IF Len(guardianSet.keys) = 0
             THEN Returned(FALSE, "invalid guardian set", 0)
             ELSE IF ~q.ok THEN Thrown(q.err)
             ELSE IF Len(vm.signatures) < q.val
             THEN Returned(FALSE, "no quorum", 0)
             ELSE IF guardianSetExpired(vm, guardianSet, now)
             THEN Returned(FALSE, "guardian set has expired", 0)
             ELSE Bind(verifySignatures(vm.hash, vm.signatures, guardianSet),
                       LAMBDA checked :
                 IF ~checked.ok THEN checked
                 ELSE IF ~checked.valid
                 THEN Returned(FALSE, checked.reason, checked.recovered)
                 ELSE Returned(TRUE, "", checked.recovered))

verifyHeader(vm, cache, now) ==
    IF verifiedHashCached(cache, vm.hash) THEN Returned(TRUE, "", 0)
    ELSE LET guardianSet == getGuardianSet(vm.guardianSetIndex)
             q == quorum(Len(guardianSet.keys))
         IN  IF Len(guardianSet.keys) = 0
             THEN Returned(FALSE, "invalid guardian set", 0)
             ELSE IF guardianSetExpired(vm, guardianSet, now)
             THEN Returned(FALSE, "guardian set has expired", 0)
             ELSE IF ~q.ok THEN Thrown(q.err)
             ELSE IF Len(vm.signatures) < q.val
             THEN Returned(FALSE, "no quorum", 0)
             ELSE Bind(verifySignatures(vm.hash, vm.signatures, guardianSet),
                       LAMBDA checked :
                 IF ~checked.ok THEN checked
                 ELSE IF ~checked.valid
                 THEN Returned(FALSE, checked.reason, checked.recovered)
                 ELSE Returned(TRUE, "", checked.recovered))

Header(guardianSetIndex, signatures, hash) ==
    [guardianSetIndex |-> guardianSetIndex, signatures |-> signatures,
     hash |-> hash]

verifyVM(vm, cache, now) ==
    verifyHeader(Header(vm.guardianSetIndex, vm.signatures, vm.hash), cache, now)

verifyBatchHeader(vm, cache, now) ==
    verifyHeader(Header(vm.guardianSetIndex, vm.signatures, vm.hash), cache, now)

\* verifyVM3 without the cache lookup
verifyVM3Unchecked(vm, cache) == Returned(TRUE, "", 0)

verifyVM3(vm, cache) ==
    IF verifiedHashCached(cache, vm.hash) THEN Returned(TRUE, "", 0)
    ELSE Returned(FALSE, "Could not find hash in cache", 0)

(***************************************************************************)
(* Entry points.  Each yields the outcome of the call; parseAndVerifyVM2   *)
(* also yields the cache it leaves behind (a reverted call leaves the      *)
(* cache as it was).                                                       *)
(***************************************************************************)
NoStruct == [none |-> TRUE]

Outcome(res, ret) ==
    [ok |-> res.ok, err |-> res.err, valid |-> res.valid,
     reason |-> res.reason, recovered |-> res.recovered, ret |-> ret]

parseAndVerifyVM(encodedVM, cache, now) ==
    Bind(parseVM(encodedVM), LAMBDA parsed :
        IF ~parsed.ok THEN Outcome(Thrown(parsed.err), NoStruct)
        ELSE Bind(verifyVM(parsed.vm, cache, now), LAMBDA res :
            IF ~res.ok THEN Outcome(res, NoStruct)
            ELSE Outcome(res, parsed.vm)))

\* the loop of parseAndVerifyVM2 and of wipeBatchCache over header.hashes
RECURSIVE updateAll(_, _, _)
updateAll(cache, hashes, verified) ==
    IF Len(hashes) = 0 THEN cache
    ELSE updateAll(updateVerifiedCacheStatus(cache, Head(hashes), verified),
                   Tail(hashes), verified)

\* parseAndVerifyVM2 writing back only the marks of its own batch
parseAndVerifyVM2Overwriting(encodedVM, cache, now) ==
    Bind(parseVM2(encodedVM), LAMBDA parsed :
        IF ~parsed.ok
        THEN [out |-> Outcome(Thrown(parsed.err), NoStruct), cache |-> cache]
        ELSE Bind(verifyBatchHeader(parsed.vm.header, cache, now), LAMBDA res :
            IF ~res.ok
            THEN [out |-> Outcome(res, NoStruct), cache |-> cache]
            ELSE [out |-> Outcome(res, parsed.vm),
                  cache |-> updateAll({}, parsed.vm.header.hashes, TRUE)]))

parseAndVerifyVM2(encodedVM, cache, now) ==
    Bind(parseVM2(encodedVM), LAMBDA parsed :
        IF ~parsed.ok
        THEN [out |-> Outcome(Thrown(parsed.err), NoStruct), cache |-> cache]
        ELSE Bind(verifyBatchHeader(parsed.vm.header, cache, now), LAMBDA res :
            IF ~res.ok
            THEN [out |-> Outcome(res, NoStruct), cache |-> cache]
            ELSE [out |-> Outcome(res, parsed.vm),
                  cache |-> updateAll(cache, parsed.vm.header.hashes, TRUE)]))

\* wipeBatchCache resetting the whole cache
wipeWholeCache(header, cache) == {}

wipeBatchCache(header, cache) == updateAll(cache, header.hashes, FALSE)

parseAndVerifyVM3(encodedVM, cache) ==
    Bind(parseVM3(encodedVM), LAMBDA parsed :
        IF ~parsed.ok THEN Outcome(Thrown(parsed.err), NoStruct)
        ELSE Outcome(verifyVM3(parsed.vm, cache), parsed.vm))

\* the Observation parseAndVerifyVAA copies out of a VM
ObservationOfVM(vm) ==
    [timestamp |-> vm.timestamp, nonce |-> vm.nonce,
     emitterChainId |-> vm.emitterChainId,
     emitterAddress |-> vm.emitterAddress, sequence |-> vm.sequence,
     consistencyLevel |-> vm.consistencyLevel, payload |-> vm.payload]

\* parseAndVerifyVAA taking every version other than 1 for version 3
parseAndVerifyVAATwoWay(encodedVM, cache, now) ==
    LET version == toUint8(encodedVM, 0)
    IN  IF ~version.ok THEN Outcome(Thrown("truncated"), NoStruct)
        ELSE IF version.val = 1
        THEN Bind(parseAndVerifyVM(encodedVM, cache, now), LAMBDA r :
                IF ~r.ok THEN r ELSE Outcome(r, ObservationOfVM(r.ret)))
        ELSE Bind(parseAndVerifyVM3(encodedVM, cache), LAMBDA r :
                IF ~r.ok THEN r ELSE Outcome(r, r.ret.observation))

parseAndVerifyVAA(encodedVM, cache, now) ==
    LET version == toUint8(encodedVM, 0)
    IN  IF ~version.ok THEN Outcome(Thrown("truncated"), NoStruct)
        ELSE IF version.val = 1
        THEN Bind(parseAndVerifyVM(encodedVM, cache, now), LAMBDA r :
                IF ~r.ok THEN r ELSE Outcome(r, ObservationOfVM(r.ret)))
        ELSE IF version.val = 3
        THEN Bind(parseAndVerifyVM3(encodedVM, cache), LAMBDA r :
                IF ~r.ok THEN r ELSE Outcome(r, r.ret.observation))
        ELSE Outcome(Returned(FALSE, "Invalid version", 0), EmptyObservation)

(***************************************************************************)
(* Inputs.  Callers pass arbitrary bytes and structs; the calls enumerated *)
(* here are built from small descriptors by the wire layout the parsers    *)
(* read.                                                                   *)
(***************************************************************************)
EncodeObservation(o) ==
    BE(o.timestamp, 4) \o BE(o.nonce, 4) \o BE(o.emitterChainId, 2)
    \o o.emitterAddress \o BE(o.sequence, 8) \o <<o.consistencyLevel>>
    \o o.payload

ObservationWith(payload) ==
    [timestamp |-> 1, nonce |-> 2, emitterChainId |-> 2,
     emitterAddress |-> Zeros(31) \o <<5>>, sequence |-> 7,
     consistencyLevel |-> 1, payload |-> payload]

ObservationA == ObservationWith(<<3>>)
\* an observation with other field values and no payload
ObservationB ==
    [timestamp |-> 16909060, nonce |-> 258, emitterChainId |-> 513,
     emitterAddress |-> <<9>> \o Zeros(30) \o <<5>>, sequence |-> 66051,
     consistencyLevel |-> 200, payload |-> <<>>]

BodyA == EncodeObservation(ObservationA)
BodyB == EncodeObservation(ObservationB)
\* a body one byte short of the observation prefix
BodyShort == SubSeq(BodyB, 1, Len(BodyB) - 1)

HashA == DoubleHash(BodyA)
HashB == DoubleHash(BodyB)

BodyIds == {"A", "B", "short"}
HashIds == {"A", "B"}

BodyOf(id) == CASE id = "A" -> BodyA [] id = "B" -> BodyB [] OTHER -> BodyShort
HashOf(id) == IF id = "A" THEN HashA ELSE HashB

\* A signature list is described by its guardian indices and the position
\* (0: none) of the one entry signed by the next guardian's key instead of
\* the key of the guardian it names.
IndexSeqs == UNION {[1..n -> 0..3] : n \in 0..MaxSigs}

SigDescs == UNION {{[idx |-> s, alt |-> k] : k \in 0..Len(s)} : s \in IndexSeqs}

\* on the wire: the indices 0, 1, 2, ... in order, and one list out of order
WireSigDescs ==
    {d \in SigDescs : (\A i \in 1..Len(d.idx) : d.idx[i] = i - 1)
                      \/ d = [idx |-> <<1, 0>>, alt |-> 0]}

Sign(hash, guardianIndex, key) ==
    [guardianIndex |-> guardianIndex, r |-> hash, s |-> Zeros(12) \o key,
     v |-> 27]

Signatures(d, hash) ==
    [i \in 1..Len(d.idx) |->
        Sign(hash, d.idx[i],
             GuardianKey(d.idx[i] + (IF i = d.alt THEN 1 ELSE 0)))]

EncodeSignature(sig) == <<sig.guardianIndex>> \o sig.r \o sig.s \o <<sig.v - 27>>

EncodeSignatures(sigs) ==
    Concat([i \in 1..Len(sigs) |-> EncodeSignature(sigs[i])])

EncodeHeader(version, guardianSetIndex, sigs) ==
    <<version>> \o BE(guardianSetIndex, 4) \o <<Len(sigs)>>
    \o EncodeSignatures(sigs)

\* struct-level calls of verifyVM, verifyBatchHeader, verifySignatures
VerifyArgs == [gsi : GuardianSetIndices, sigs : SigDescs, hash : {"A"}]

BatchHeaderArgs == [gsi : GuardianSetIndices, sigs : WireSigDescs, hash : HashIds]

SignaturesArgs ==
    [gsi : GuardianSetIndices, sigs : SigDescs, hash : {"A"}]
    \cup [gsi : GuardianSetIndices, sigs : {[idx |-> <<>>, alt |-> 0]},
          hash : HashIds]

HeaderOf(a) ==
    Header(a.gsi, Signatures(a.sigs, HashOf(a.hash)), HashOf(a.hash))

\* version-1 buffers
VMArgs == [version : {1}, gsi : GuardianSetIndices, sigs : WireSigDescs,
           body : BodyIds]

\* version bytes no parser accepts
UnsupportedVersions == {0, 4, 255}

\* buffers for the unified entry: version 1, the V3 layout, other versions
VAAArgs ==
    VMArgs \cup [version : {2, 3} \cup UnsupportedVersions,
                 gsi : {CurrentGuardianSetIndex},
                 sigs : {[idx |-> <<0>>, alt |-> 0]}, body : BodyIds]

\* entries of a batch as parseVM2 hands them on: the marker 3 and the raw
\* observation bytes
TaggedArgs == [version : {3}, gsi : {CurrentGuardianSetIndex},
               sigs : {[idx |-> <<0>>, alt |-> 0]}, body : {"A", "B"},
               tagged : {TRUE}]

BufferOf(a) ==
    IF "tagged" \in DOMAIN a THEN <<3>> \o BodyOf(a.body)
    ELSE IF a.version = 3 THEN <<3, 0, 0, 3>> \o BodyOf(a.body)
    ELSE EncodeHeader(a.version, a.gsi,
                      Signatures(a.sigs, DoubleHash(BodyOf(a.body))))
         \o BodyOf(a.body)

\* version-2 buffers: after the signatures come the listed hashes, either
\* preceded by a count byte ("counted") or not ("packed": the first byte of
\* the first hash is then read as the count), and a zero observation count;
\* the signatures are over the header hash parseVM2 computes
BatchHashLists == {<<>>, <<"A">>, <<"B">>, <<"B", "A">>, <<"A", "B">>}

BatchArgs == [gsi : GuardianSetIndices, sigs : WireSigDescs,
              hashes : BatchHashLists, layout : {"packed", "counted"}]

\* the observations of a batch, each after a one-byte length
BatchObservations(a) ==
    <<Len(a.hashes)>>
    \o Concat([i \in 1..Len(a.hashes) |->
                  <<Len(BodyOf(a.hashes[i]))>> \o BodyOf(a.hashes[i])])

BatchTail(a) ==
    IF "count" \in DOMAIN a
    THEN <<a.count>> \o Zeros(32 * a.count) \o <<0>>
    ELSE (IF a.layout = "counted" THEN <<Len(a.hashes)>> ELSE <<>>)
         \o Concat([i \in 1..Len(a.hashes) |-> HashOf(a.hashes[i])])
         \o (IF "obs" \in DOMAIN a THEN BatchObservations(a) ELSE <<0>>)

BatchSignedHash(a) ==
    LET tail == BatchTail(a)
        n    == IF 32 * tail[1] <= Len(tail) THEN 32 * tail[1] ELSE 0
    IN  DoubleHash(SubSeq(tail, 1, n))

BatchBufferOf(a) ==
    EncodeHeader(2, a.gsi, Signatures(a.sigs, BatchSignedHash(a)))
    \o BatchTail(a)

\* Buffers cut short: a buffer descriptor with the number of leading bytes
\* kept, for messages with no signature and with one.
CutSigDescs == {[idx |-> <<>>, alt |-> 0], [idx |-> <<0>>, alt |-> 0]}

CutOf(base, full) == {base @@ [keep |-> k] : k \in 0..(Len(full) - 1)}

\* the bytes passed for the descriptor a, of which full is uncut buffer
Wire(a, full) ==
    IF "keep" \in DOMAIN a THEN SubSeq(full, 1, a.keep) ELSE full

CutVMArgs ==
    UNION {CutOf(b, BufferOf(b)) :
             b \in [version : {1}, gsi : {CurrentGuardianSetIndex},
                    sigs : CutSigDescs, body : {"A"}]}

CutBatchArgs ==
    UNION {CutOf(b, BatchBufferOf(b)) :
             b \in [gsi : {CurrentGuardianSetIndex}, sigs : CutSigDescs,
                    hashes : {<<"A">>}, layout : {"packed"}]}

CutVM3Args ==
    UNION {CutOf(b, BufferOf(b)) :
             b \in [version : {3}, gsi : {CurrentGuardianSetIndex},
                    sigs : {[idx |-> <<0>>, alt |-> 0]}, body : {"A"}]}

\* version-2 buffers that carry the observations whose hashes they list
ObservationBatchArgs ==
    [gsi : {CurrentGuardianSetIndex}, sigs : CutSigDescs,
     hashes : {<<"A">>, <<"B", "A">>}, layout : {"packed", "counted"},
     obs : {TRUE}]

\* values of the hashesLen byte
HashCounts == {0, 1, 7, 8, 9, 255}

\* unsigned version-2 buffers of a hashesLen byte, that many 32-byte
\* entries (zero bytes) and a zero observation count
CountedBatchArgs ==
    [gsi : {CurrentGuardianSetIndex}, sigs : {[idx |-> <<>>, alt |-> 0]},
     hashes : {<<>>}, layout : {"filled"}, count : HashCounts]

\* version-2 buffers passed to parseVM2
ParseBatchArgs == {a \in BatchArgs : a.gsi = CurrentGuardianSetIndex}

\* version-3 buffers
VM3BufferArgs == {a \in VAAArgs : a.version = 3}

\* VM3 structs passed to verifyVM3
VM3Args == [hash : HashIds, body : {"A", "B"}]

VM3Of(a) ==
    [version |-> 3,
     observation |-> IF a.body = "A" THEN ObservationA ELSE ObservationB,
     hash |-> HashOf(a.hash)]

\* headers passed to wipeBatchCache
WipeArgs == UNION {[1..n -> HashIds] : n \in 0..2}

WipeHeaderOf(a) == [hashes |-> [i \in 1..Len(a) |-> HashOf(a[i])]]

(***************************************************************************)
(* The state machine.  One caller at a time (a transaction runs to its     *)
(* end): a call is made when pc = "idle", `last' records the call and its  *)
(* outcome, and Return hands control back.                                 *)
(***************************************************************************)
VARIABLES
    verifiedHashes,   \* the hashes whose verified flag is set
    blockTimestamp,   \* block.timestamp
    pc,               \* "idle", "called", or "repeated"
    last,             \* the call in progress: [op, arg, before, out], before
                      \* being the cache when the call was made
    second            \* outcome of the same call made a second time

vars == <<verifiedHashes, blockTimestamp, pc, last, second>>

NoCall == [op |-> "none", arg |-> NoStruct, before |-> {}, out |-> NoStruct]

Init ==
    /\ verifiedHashes = {}
    /\ blockTimestamp = 0
    /\ pc = "idle"
    /\ last = NoCall
    /\ second = NoStruct

\* the effect of a call that does not write the cache
View(op, arg, out) ==
    /\ pc' = "called"
    /\ last' = [op |-> op, arg |-> arg, before |-> verifiedHashes, out |-> out]
    /\ UNCHANGED <<verifiedHashes, blockTimestamp, second>>

CallVerifyVM ==
    /\ pc = "idle"
    /\ \E a \in VerifyArgs :
        View("verifyVM", a,
             Outcome(verifyVM(HeaderOf(a), verifiedHashes, blockTimestamp), NoStruct))

CallVerifyBatchHeader ==
    /\ pc = "idle"
    /\ \E a \in BatchHeaderArgs :
        View("verifyBatchHeader", a,
             Outcome(verifyBatchHeader(HeaderOf(a), verifiedHashes, blockTimestamp),
                     NoStruct))

CallVerifySignatures ==
    /\ pc = "idle"
    /\ \E a \in SignaturesArgs :
        View("verifySignatures", a,
             Outcome(verifySignatures(HashOf(a.hash),
                                      Signatures(a.sigs, HashOf(a.hash)),
                                      getGuardianSet(a.gsi)), NoStruct))

CallVerifyVM3 ==
    /\ pc = "idle"
    /\ \E a \in VM3Args :
        View("verifyVM3", a, Outcome(verifyVM3(VM3Of(a), verifiedHashes), NoStruct))

CallParseVM ==
    /\ pc = "idle"
    /\ \E a \in VMArgs \cup CutVMArgs :
        View("parseVM", a, parseVM(Wire(a, BufferOf(a))))

CallParseVM2 ==
    /\ pc = "idle"
    /\ \E a \in ParseBatchArgs \cup CutBatchArgs \cup ObservationBatchArgs
                 \cup CountedBatchArgs :
        View("parseVM2", a, parseVM2(Wire(a, BatchBufferOf(a))))

CallParseVM3 ==
    /\ pc = "idle"
    /\ \E a \in VM3BufferArgs \cup CutVM3Args :
        View("parseVM3", a, parseVM3(Wire(a, BufferOf(a))))

CallQuorum ==
    /\ pc = "idle"
    /\ \E n \in 0..MaxGuardianCount : View("quorum", [n |-> n], quorum(n))

CallParseAndVerifyVM ==
    /\ pc = "idle"
    /\ \E a \in VMArgs :
        View("parseAndVerifyVM", a,
             parseAndVerifyVM(BufferOf(a), verifiedHashes, blockTimestamp))

CallParseAndVerifyVM3 ==
    /\ pc = "idle"
    /\ \E a \in VM3BufferArgs :
        View("parseAndVerifyVM3", a,
             parseAndVerifyVM3(BufferOf(a), verifiedHashes))

\* parseAndVerifyVAA marking the hash of a version-1 message it accepts
CallParseAndVerifyVAACaching ==
    /\ pc = "idle"
    /\ \E a \in VAAArgs :
        LET out == parseAndVerifyVAA(BufferOf(a), verifiedHashes, blockTimestamp)
        IN  /\ pc' = "called"
            /\ last' = [op |-> "parseAndVerifyVAA", arg |-> a,
                        before |-> verifiedHashes, out |-> out]
            /\ verifiedHashes' =
                 IF out.ok /\ out.valid /\ a.version = 1
                 THEN updateVerifiedCacheStatus(verifiedHashes,
                          parseVM(BufferOf(a)).vm.hash, TRUE)
                 ELSE verifiedHashes
            /\ UNCHANGED <<blockTimestamp, second>>

CallParseAndVerifyVAA ==
    /\ pc = "idle"
    /\ \E a \in VAAArgs \cup TaggedArgs :
        View("parseAndVerifyVAA", a,
             parseAndVerifyVAA(BufferOf(a), verifiedHashes, blockTimestamp))

CallParseAndVerifyVM2 ==
    /\ pc = "idle"
    /\ \E a \in BatchArgs :
        LET r == parseAndVerifyVM2(BatchBufferOf(a), verifiedHashes, blockTimestamp)
        IN  /\ pc' = "called"
            /\ last' = [op |-> "parseAndVerifyVM2", arg |-> a,
                        before |-> verifiedHashes, out |-> r.out]
            /\ verifiedHashes' = r.cache
            /\ UNCHANGED <<blockTimestamp, second>>

CallWipeBatchCache ==
    /\ pc = "idle"
    /\ \E a \in WipeArgs :
        /\ pc' = "called"
        /\ last' = [op |-> "wipeBatchCache", arg |-> a,
                    before |-> verifiedHashes, out |-> NoStruct]
        /\ verifiedHashes' = wipeBatchCache(WipeHeaderOf(a), verifiedHashes)
        /\ UNCHANGED <<blockTimestamp, second>>

\* the caller of parseAndVerifyVAA makes the same call again at once
Repeat ==
    /\ pc = "called"
    /\ last.op = "parseAndVerifyVAA"
    /\ pc' = "repeated"
    /\ second' = parseAndVerifyVAA(BufferOf(last.arg), verifiedHashes, blockTimestamp)
    /\ UNCHANGED <<verifiedHashes, blockTimestamp, last>>

Return ==
    /\ pc \in {"called", "repeated"}
    /\ pc' = "idle"
    /\ last' = NoCall
    /\ second' = NoStruct
    /\ UNCHANGED <<verifiedHashes, blockTimestamp>>

\* a later block
Tick ==
    /\ pc = "idle"
    /\ blockTimestamp < MaxTime
    /\ blockTimestamp' = blockTimestamp + 1
    /\ UNCHANGED <<verifiedHashes, pc, last, second>>

Next ==
    \/ CallVerifyVM
    \/ CallVerifyBatchHeader
    \/ CallVerifySignatures
    \/ CallVerifyVM3
    \/ CallParseVM
    \/ CallParseVM2
    \/ CallParseVM3
    \/ CallQuorum
    \/ CallParseAndVerifyVM
    \/ CallParseAndVerifyVM2
    \/ CallParseAndVerifyVM3
    \/ CallParseAndVerifyVAA
    \/ CallWipeBatchCache
    \/ Repeat
    \/ Return
    \/ Tick

Spec == Init /\ [][Next]_vars

(***************************************************************************)
(* Two callers of parseAndVerifyVM2.  A transaction runs to its end before *)
(* the next one starts, so two calls made at the same time are executed in *)
(* one order or the other: `last' is the call executed first, `second' the *)
(* call executed after it.                                                 *)
(***************************************************************************)
\* the batches of the caller that is executed second
OtherBatchArgs == {a \in ParseBatchArgs : a.sigs \in CutSigDescs}

CallParseAndVerifyVM2Again ==
    /\ pc = "called"
    /\ last.op = "parseAndVerifyVM2"
    /\ \E a \in OtherBatchArgs :
        LET r == parseAndVerifyVM2(BatchBufferOf(a), verifiedHashes, blockTimestamp)
        IN  /\ pc' = "repeated"
            /\ second' = [arg |-> a, out |-> r.out]
            /\ verifiedHashes' = r.cache
            /\ UNCHANGED <<blockTimestamp, last>>

NextCallers ==
    \/ CallParseAndVerifyVM2
    \/ CallParseAndVerifyVM2Again
    \/ CallWipeBatchCache
    \/ CallVerifyVM3
    \/ Return

SpecCallers == Init /\ [][NextCallers]_vars

(***************************************************************************)
(* Callers without guardian keys: every batch submitted carries no         *)
(* signature at all, and anyone may wipe and verify.                       *)
(***************************************************************************)
UnsignedBatchArgs == {a \in BatchArgs : Len(a.sigs.idx) = 0}

CallParseAndVerifyVM2Unsigned ==
    /\ pc = "idle"
    /\ \E a \in UnsignedBatchArgs :
        LET r == parseAndVerifyVM2(BatchBufferOf(a), verifiedHashes, blockTimestamp)
        IN  /\ pc' = "called"
            /\ last' = [op |-> "parseAndVerifyVM2", arg |-> a,
                        before |-> verifiedHashes, out |-> r.out]
            /\ verifiedHashes' = r.cache
            /\ UNCHANGED <<blockTimestamp, second>>

NextForgery ==
    \/ CallParseAndVerifyVM2Unsigned
    \/ CallWipeBatchCache
    \/ CallVerifyVM
    \/ CallVerifyVM3
    \/ Return
    \/ Tick

SpecForgery == Init /\ [][NextForgery]_vars

(***************************************************************************)
(* What a call in progress was about.                                      *)
(***************************************************************************)
\* a call of the full verification path on a header built from last.arg
InVerify == pc # "idle" /\ last.op \in {"verifyVM", "verifyBatchHeader"}

InVerifySignatures == pc # "idle" /\ last.op = "verifySignatures"

CallHash == HashOf(last.arg.hash)
CallSigs == Signatures(last.arg.sigs, CallHash)
CallSet  == getGuardianSet(last.arg.gsi)
CallKeys == CallSet.keys

Uncached == CallHash \notin verifiedHashes

\* the quorum of n guardians: the least q with 3q > 2n
IsQuorumOf(q, n) == 3 * q > 2 * n /\ 3 * (q - 1) <= 2 * n

\* defects of the i-th signature of the call, as the walk meets them
OutOfOrder(i) ==
    i > 1 /\ CallSigs[i].guardianIndex <= CallSigs[i - 1].guardianIndex

OutOfRange(i) == CallSigs[i].guardianIndex >= Len(CallKeys)

Recovers(i) ==
    /\ ~OutOfRange(i)
    /\ ecrecover(CallHash, CallSigs[i].v, CallSigs[i].r, CallSigs[i].s)
         = CallKeys[CallSigs[i].guardianIndex + 1]

\* every signature before the i-th is in order, in range and recovers
CleanBefore(i) == \A j \in 1..(i - 1) : ~OutOfOrder(j) /\ Recovers(j)

(***************************************************************************)
(* Claims.                                                                 *)
(***************************************************************************)

\* C1: a parseAndVerifyVM2 call whose header verification returns
\* valid = false marks none of the batch's hashes as verified: it leaves the
\* cache as it found it.
C1_RejectedBatchMarksNothing ==
    (pc = "called" /\ last.op = "parseAndVerifyVM2"
        /\ last.out.ok /\ ~last.out.valid)
    => verifiedHashes = last.before

\* C2: whenever verify returns valid = true for a hash that is not in the
\* cache, the guardian set has n keys with 0 < n < 256, the signature list
\* has at least floor(2n/3)+1 entries, its guardian indices are strictly
\* increasing and below n, every signature recovers to keys[guardianIndex],
\* and so at least a quorum of distinct guardians signed.
C2_ValidMeansQuorumOfGuardians ==
    (InVerify /\ last.out.ok /\ last.out.valid /\ Uncached)
    => LET n == Len(CallKeys)
       IN  /\ 0 < n /\ n < 256
           /\ Len(CallSigs) >= ((2 * n) \div 3) + 1
           /\ \A i \in 1..Len(CallSigs) : ~OutOfOrder(i) /\ Recovers(i)
           /\ \E q \in 1..n :
                /\ IsQuorumOf(q, n)
                /\ Cardinality({CallSigs[i].guardianIndex :
                                    i \in 1..Len(CallSigs)}) >= q

\* C2 witness: an uncached hash accepted under the four-key set with three
\* signatures
C2_Witness ==
    /\ InVerify /\ last.out.ok /\ last.out.valid /\ Uncached
    /\ Len(CallKeys) = 4 /\ Len(CallSigs) = 3

\* C3: once a hash is marked verified, verify returns (true, "") for it with
\* every signature list and every guardian set, and no call other than a
\* wipe unmarks a hash.
C3_CachedHashVerifies ==
    /\ (InVerify /\ CallHash \in verifiedHashes)
       => /\ last.out.ok /\ last.out.valid /\ last.out.reason = ""
          /\ last.out.recovered = 0
    /\ (pc # "idle" /\ last.op # "wipeBatchCache")
       => last.before \subseteq verifiedHashes

\* C3 witness: a marked hash verified with no signature and the key-less set
C3_Witness ==
    /\ InVerify /\ CallHash \in verifiedHashes
    /\ Len(CallSigs) = 0 /\ Len(CallKeys) = 0
    /\ last.out.valid

\* the guardian set of the call fails the expiry step
CallSetExpired ==
    /\ last.arg.gsi # CurrentGuardianSetIndex
    /\ CallSet.expirationTime < blockTimestamp

\* the call walks the signature list: verifySignatures itself, or verify on
\* an uncached hash that passed the guardian-set, expiry and quorum steps
ReachesWalk ==
    \/ InVerifySignatures
    \/ /\ InVerify /\ Uncached
       /\ 0 < Len(CallKeys) /\ Len(CallKeys) < 256
       /\ ~CallSetExpired
       /\ Len(CallSigs) >= ((2 * Len(CallKeys)) \div 3) + 1

ReturnedPair(valid, reason) ==
    last.out.ok /\ last.out.valid = valid /\ last.out.reason = reason

ThrownWith(why) == ~last.out.ok /\ last.out.err = why

\* C4 (as claimed): none of the six verification-outcome failures is
\* thrown: verify returns its (valid, reason) pair unless the guardian set
\* is too large for quorum.
C4_FailuresAreReturned ==
    InVerify => (last.out.ok \/ last.out.err = "too many guardians")

\* C4 (amended): verify returns (false, reason) for InvalidGuardianSet,
\* GuardianSetExpired, NoQuorum and InvalidSignature, and throws exactly
\* when the walk meets, before any signature that fails to recover, an entry
\* that is out of order ("signature indices must be ascending") or out of
\* range ("guardian index out of bounds"), or when quorum rejects the size
\* of the guardian set.
C4_OrderAndRangeAreThrown ==
    InVerify =>
        /\ (last.out.ok /\ ~last.out.valid)
           => last.out.reason \in {"invalid guardian set",
                                   "guardian set has expired", "no quorum",
                                   "VM signature invalid"}
        /\ (Uncached /\ Len(CallKeys) = 0)
           => ReturnedPair(FALSE, "invalid guardian set")
        /\ (Uncached /\ Len(CallKeys) > 0 /\ CallSetExpired)
           => ReturnedPair(FALSE, "guardian set has expired")
        /\ \A i \in 1..Len(CallSigs) :
              (ReachesWalk /\ CleanBefore(i)) =>
                 /\ OutOfOrder(i)
                    => ThrownWith("signature indices must be ascending")
                 /\ (~OutOfOrder(i) /\ OutOfRange(i))
                    => ThrownWith("guardian index out of bounds")
                 /\ (~OutOfOrder(i) /\ ~OutOfRange(i) /\ ~Recovers(i))
                    => ReturnedPair(FALSE, "VM signature invalid")
        /\ ~last.out.ok
           => \/ /\ ReachesWalk
                 /\ \E i \in 1..Len(CallSigs) :
                       CleanBefore(i) /\ (OutOfOrder(i) \/ OutOfRange(i))
              \/ /\ Uncached /\ Len(CallKeys) >= 256 /\ ~CallSetExpired
                 /\ ThrownWith("too many guardians")

\* C4 witness: verify aborted on an out-of-order signature list
C4_Witness ==
    InVerify /\ ThrownWith("signature indices must be ascending")

\* C5 (as claimed): a signature list with an entry whose guardianIndex is
\* not above the previous entry's fails with BadSignatureOrder against any
\* guardian set.
C5_OutOfOrderIsBadSignatureOrder ==
    (InVerifySignatures /\ \E i \in 1..Len(CallSigs) : OutOfOrder(i))
    => \/ ThrownWith("signature indices must be ascending")
       \/ ReturnedPair(FALSE, "signature indices must be ascending")

\* C5 (amended): verifySignatures never accepts a list with an out-of-order
\* entry, and aborts with "signature indices must be ascending" when every
\* entry before the first out-of-order one is in range and recovers to its
\* guardian's key; otherwise that earlier entry decides the outcome.
C5_OutOfOrderAfterCleanPrefix ==
    InVerifySignatures =>
        \A i \in 1..Len(CallSigs) :
            OutOfOrder(i) =>
                /\ ~(last.out.ok /\ last.out.valid)
                /\ CleanBefore(i)
                   => ThrownWith("signature indices must be ascending")

\* C5 witness: indices 2, 1 with both signatures valid for the four-key set
C5_Witness ==
    /\ InVerifySignatures /\ Len(CallSigs) = 2 /\ OutOfOrder(2)
    /\ Recovers(1) /\ Recovers(2)
    /\ ThrownWith("signature indices must be ascending")

\* the hash of the version-1 buffer of the call
CallBufferHash == parseVM(BufferOf(last.arg)).vm.hash

\* C6 (as claimed): parseAndVerify called twice in a row on a valid buffer
\* yields the same result twice, the first call leaves the hash marked
\* verified and the second call recovers no signature.
C6_SecondCallServedFromCache ==
    pc = "repeated" =>
        /\ second = last.out
        /\ (last.out.ok /\ last.out.valid)
           => /\ CallBufferHash \in verifiedHashes
              /\ second.recovered = 0

\* C6 (amended): parseAndVerify called twice in a row in one block yields
\* the same result twice; the call never writes the cache, so unless the
\* hash was marked before the first call the second call recovers every
\* signature again.
C6_SecondCallRepeatsTheFirst ==
    pc = "repeated" =>
        /\ second = last.out
        /\ verifiedHashes = last.before
        /\ (last.out.ok /\ last.out.valid /\ CallBufferHash \notin last.before)
           => /\ second.recovered = Len(last.arg.sigs.idx)
              /\ second.recovered >= 1

\* C6 witness: a valid version-1 buffer with an unmarked hash, verified twice
C6_Witness ==
    /\ pc = "repeated" /\ last.out.ok /\ last.out.valid
    /\ last.arg.version = 1 /\ CallBufferHash \notin last.before
    /\ second.valid

InQuorum == pc # "idle" /\ last.op = "quorum"

\* C7: quorum(n) = floor(2n/3) + 1 for every n in 0..255, the least number
\* of signatures that is more than two thirds of n; for the sizes 1, 2, 3,
\* 4, 7, 255 it is 1, 2, 3, 3, 5, 171.
C7_QuorumFormula ==
    (InQuorum /\ last.arg.n <= 255) =>
        LET n == last.arg.n
            table == (1 :> 1) @@ (2 :> 2) @@ (3 :> 3) @@ (4 :> 3) @@ (7 :> 5)
                     @@ (255 :> 171)
        IN  /\ last.out.ok
            /\ last.out.val = ((n * 2) \div 3) + 1
            /\ IsQuorumOf(last.out.val, n)
            /\ n \in DOMAIN table => last.out.val = table[n]

\* C7 witness: the quorum of 255 guardians
C7_Witness == InQuorum /\ last.arg.n = 255 /\ last.out.val = 171

\* C8: for an uncached hash and a guardian set of n keys (0 < n < 256) that
\* passes the expiry step, a signature list shorter than floor(2n/3)+1
\* yields (false, "no quorum"), whatever the signatures are.
C8_ShortListIsNoQuorum ==
    (InVerify /\ Uncached /\ 0 < Len(CallKeys) /\ Len(CallKeys) < 256
        /\ ~CallSetExpired
        /\ Len(CallSigs) < ((2 * Len(CallKeys)) \div 3) + 1)
    => (ReturnedPair(FALSE, "no quorum") /\ last.out.recovered = 0)

\* C8 witness: two out-of-order signatures for the four-key set
C8_Witness ==
    /\ InVerify /\ Uncached /\ Len(CallKeys) = 4 /\ Len(CallSigs) = 2
    /\ OutOfOrder(2) /\ ReturnedPair(FALSE, "no quorum")

\* C9: for an uncached hash and a set with keys, verify answers "guardian
\* set has expired" exactly when the set is not the current one and its
\* expirationTime is before the block time: the current set passes even when
\* its expirationTime is in the past, and so does an unexpired old set.
C9_OnlyOldExpiredSetsAreRejected ==
    (InVerify /\ Uncached /\ Len(CallKeys) > 0) =>
        (ReturnedPair(FALSE, "guardian set has expired")
            <=> (/\ last.arg.gsi # CurrentGuardianSetIndex
                 /\ CallSet.expirationTime < blockTimestamp))

\* C9 witness: the current set, its expirationTime in the past, accepted
C9_Witness ==
    /\ InVerify /\ Uncached /\ last.arg.gsi = CurrentGuardianSetIndex
    /\ CallSet.expirationTime < blockTimestamp
    /\ ReturnedPair(TRUE, "")

\* the i-th signature is the first that is in range and recovers another
\* address than its guardian's key
FirstMismatch(i) ==
    /\ ~OutOfRange(i) /\ ~Recovers(i)
    /\ \A j \in 1..(i - 1) : OutOfRange(j) \/ Recovers(j)

\* C10 (as claimed): with a one-guardian set and an uncached hash, one
\* signature from guardian 0 verifies (true, "") if it recovers to keys[0]
\* and (false, "VM signature invalid") if not; and the first signature that
\* recovers another address ends verification with that result.
C10_FirstMismatchDecides ==
    /\ (InVerify /\ Uncached /\ Len(CallKeys) = 1 /\ Len(CallSigs) = 1
           /\ CallSigs[1].guardianIndex = 0)
       => IF Recovers(1) THEN ReturnedPair(TRUE, "")
          ELSE ReturnedPair(FALSE, "VM signature invalid")
    /\ (InVerify \/ InVerifySignatures) =>
          \A i \in 1..Len(CallSigs) :
             (ReachesWalk /\ FirstMismatch(i))
             => ReturnedPair(FALSE, "VM signature invalid")

\* C10 (amended): the same for a one-guardian set that passes the expiry
\* step; and the first signature that recovers another address ends
\* verification with (false, "VM signature invalid") when no entry up to it
\* is out of order or out of range (such an entry aborts the call first).
C10_FirstMismatchAfterCleanPrefix ==
    /\ (InVerify /\ Uncached /\ Len(CallKeys) = 1 /\ Len(CallSigs) = 1
           /\ CallSigs[1].guardianIndex = 0 /\ ~CallSetExpired)
       => IF Recovers(1) THEN ReturnedPair(TRUE, "") /\ last.out.recovered = 1
          ELSE ReturnedPair(FALSE, "VM signature invalid")
    /\ (InVerify \/ InVerifySignatures) =>
          \A i \in 1..Len(CallSigs) :
             (ReachesWalk /\ CleanBefore(i) /\ ~OutOfOrder(i)
                  /\ ~OutOfRange(i) /\ ~Recovers(i))
             => (ReturnedPair(FALSE, "VM signature invalid")
                    /\ last.out.recovered = i)

\* C10 witness: the one-key current set, one signature by its guardian
C10_Witness ==
    /\ InVerify /\ Uncached /\ Len(CallKeys) = 1 /\ Len(CallSigs) = 1
    /\ CallSigs[1].guardianIndex = 0 /\ Recovers(1)
    /\ ReturnedPair(TRUE, "")

\* C11: verifying an uncached hash against a guardian set of exactly 256
\* keys that passes the expiry step aborts with "too many guardians" for
\* every signature list, and quorum(256) itself aborts without a value.
C11_TooManyGuardians ==
    /\ (InVerify /\ Uncached /\ Len(CallKeys) = 256 /\ ~CallSetExpired)
       => (ThrownWith("too many guardians") /\ last.out.recovered = 0)
    /\ (InQuorum /\ last.arg.n = 256)
       => (ThrownWith("too many guardians") /\ last.out.val = 0)

\* C11 witness: three signatures presented to the 256-key set
C11_Witness ==
    /\ InVerify /\ Uncached /\ Len(CallKeys) = 256 /\ ~CallSetExpired
    /\ Len(CallSigs) = 3 /\ ThrownWith("too many guardians")

InWipe == pc # "idle" /\ last.op = "wipeBatchCache"

\* the hashes of the header passed to wipeBatchCache
WipedHashes == {HashOf(last.arg[i]) : i \in 1..Len(last.arg)}

\* C12: when wipeBatchCache(header) returns, no hash of header.hashes is
\* marked verified and every other hash is marked exactly as before the
\* call; no other operation unmarks a hash.
C12_WipeUnmarksExactlyTheHeader ==
    /\ InWipe => /\ verifiedHashes \cap WipedHashes = {}
                 /\ verifiedHashes \ WipedHashes = last.before \ WipedHashes
    /\ (pc # "idle" /\ ~InWipe) => last.before \subseteq verifiedHashes

\* C12 witness: both hashes of a batch are marked and one of them is wiped
C12_Witness ==
    /\ InWipe /\ last.before = {HashA, HashB} /\ last.arg = <<"A">>
    /\ verifiedHashes = {HashB}

InVerifyVM3 == pc # "idle" /\ last.op = "verifyVM3"

\* C13: verifyVM3 returns (true, "") exactly when the hash of the message
\* is marked verified at the time of the call and (false, "Could not find
\* hash in cache") otherwise, whatever the block time, the registered
\* guardian sets and the rest of the message; it recovers no signature.
C13_VM3ValidityIsCacheMembership ==
    InVerifyVM3 =>
        /\ last.out.recovered = 0
        /\ IF CallHash \in verifiedHashes
           THEN ReturnedPair(TRUE, "")
           ELSE ReturnedPair(FALSE, "Could not find hash in cache")

\* C13 witness: a marked hash accepted at a time when guardian sets have
\* expired, while the other hash is refused
C13_Witness ==
    /\ InVerifyVM3 /\ verifiedHashes = {HashB} /\ last.arg.hash = "B"
    /\ blockTimestamp = MaxTime /\ ReturnedPair(TRUE, "")

\* the call in progress is one that returns a (valid, reason) pair
InVerdict ==
    /\ pc # "idle"
    /\ last.op \in {"verifyVM", "verifyBatchHeader", "verifyVM3",
                    "verifySignatures", "parseAndVerifyVM",
                    "parseAndVerifyVM2", "parseAndVerifyVM3",
                    "parseAndVerifyVAA"}

\* C14: every (valid, reason) pair an entry point returns has valid = true
\* exactly when reason is the empty string, and a rejection carries one of
\* the reasons of the source.
C14_ValidIffNoReason ==
    (InVerdict /\ last.out.ok) =>
        /\ last.out.valid <=> last.out.reason = ""
        /\ ~last.out.valid
           => last.out.reason \in {"invalid guardian set",
                                   "guardian set has expired", "no quorum",
                                   "VM signature invalid",
                                   "Could not find hash in cache",
                                   "Invalid version"}
        /\ pc = "repeated"
           => (second.ok /\ (second.valid <=> second.reason = ""))

\* C14 witness: the unified entry rejects a version-1 message whose only
\* signature does not recover to the guardian's key
C14_Witness ==
    /\ InVerdict /\ last.op = "parseAndVerifyVAA" /\ last.arg.version = 1
    /\ ReturnedPair(FALSE, "VM signature invalid")

InVAA == pc # "idle" /\ last.op = "parseAndVerifyVAA"

\* the observation a body of the call was encoded from
ObservationOfBody(id) == IF id = "A" THEN ObservationA ELSE ObservationB

\* C15: the unified entry routes versions 1, 2 and 3 to their pipelines
\* (none is refused as an invalid version) and returns the Observation the
\* message carries.
C15_EveryVersionIsRouted ==
    (InVAA /\ last.arg.version \in {1, 2, 3}) =>
        /\ ~ReturnedPair(FALSE, "Invalid version")
        /\ (last.arg.version = 3 /\ last.arg.body # "short")
           => (last.out.ok /\ last.out.ret = ObservationOfBody(last.arg.body))
        /\ (last.arg.version = 1 /\ last.out.ok)
           => last.out.ret = ObservationOfBody(last.arg.body)

\* the reason the unified entry gives for the buffer of the call with its
\* version byte replaced by w
ReasonForVersion(w) ==
    parseAndVerifyVAA(BufferOf([last.arg EXCEPT !.version = w]), last.before,
                      blockTimestamp).reason

\* C16 (as claimed): for a version byte outside {1, 2, 3} the unified entry
\* never answers valid = true and its error carries the byte: buffers that
\* differ in the unsupported version byte get different errors.
C16_ErrorCarriesTheVersionByte ==
    (InVAA /\ last.arg.version \notin {1, 2, 3}) =>
        /\ ~(last.out.ok /\ last.out.valid)
        /\ \A w \in UnsupportedVersions \ {last.arg.version} :
              ReasonForVersion(w) # last.out.reason

\* C16 (amended): for a version byte outside {1, 2, 3} the unified entry
\* returns (empty Observation, false, "Invalid version"): never valid =
\* true, and the same reason for every such byte.
C16_InvalidVersionIsRefused ==
    (InVAA /\ last.arg.version \notin {1, 2, 3}) =>
        /\ ReturnedPair(FALSE, "Invalid version")
        /\ last.out.ret = EmptyObservation
        /\ \A w \in UnsupportedVersions : ReasonForVersion(w) = last.out.reason

\* C16 witness: version byte 255 in front of a well-formed, signed body
C16_Witness ==
    /\ InVAA /\ last.arg.version = 255 /\ last.arg.body = "A"
    /\ ReturnedPair(FALSE, "Invalid version")

\* the buffer of the call was passed whole
Whole == "keep" \notin DOMAIN last.arg

InParseVM == pc # "idle" /\ last.op = "parseVM"

\* C17: parseVM of the V1 encoding of a header (guardianSetIndex,
\* signatures) and an Observation returns that guardianSetIndex, those
\* signatures and that Observation, with the payload being all bytes after
\* the 51-byte prefix, and a hash equal to the double hash of the body
\* bytes alone, whatever the header is.
C17_V1RoundTrip ==
    (InParseVM /\ Whole /\ last.arg.body # "short") =>
        LET body == BodyOf(last.arg.body)
        IN  /\ last.out.ok
            /\ ObservationOfVM(last.out.vm) = ObservationOfBody(last.arg.body)
            /\ last.out.vm.payload = SubSeq(body, ObservationPrefix + 1, Len(body))
            /\ last.out.vm.hash = DoubleHash(body)
            /\ last.out.vm.version = 1
            /\ last.out.vm.guardianSetIndex = last.arg.gsi
            /\ last.out.vm.signatures = Signatures(last.arg.sigs, DoubleHash(body))

\* C17 witness: a message for guardian set 1 with three signatures and a
\* one-byte payload
C17_Witness ==
    /\ InParseVM /\ Whole /\ last.arg.body = "A" /\ last.arg.gsi = 1
    /\ Len(last.arg.sigs.idx) = 3 /\ last.out.ok
    /\ last.out.vm.payload = <<3>> /\ last.out.vm.hash = HashA

InParseVM2 == pc # "idle" /\ last.op = "parseVM2"

\* the hashes a version-2 buffer of the call lists after its count byte
ListedHashes == [i \in 1..Len(last.arg.hashes) |-> HashOf(last.arg.hashes[i])]

\* C18: parseVM2 of a buffer that carries the byte hashesLen followed by
\* hashesLen hashes returns those hashes as header.hashes and the double
\* hash of their hashesLen * 32 bytes (the count byte left out) as
\* header.hash.
C18_BatchHashCoversTheHashList ==
    (InParseVM2 /\ Whole /\ last.arg.layout = "counted") =>
        /\ last.out.ok
        /\ last.out.vm.header.hashes = ListedHashes
        /\ last.out.vm.header.hash = DoubleHash(Concat(ListedHashes))

InParseVM3 == pc # "idle" /\ last.op = "parseVM3"

\* C19: parseVM3 of a buffer with 3 at offset 3 and an observation of at
\* least 51 bytes from offset 4 on returns that observation, its payload
\* being all bytes after the prefix, and the double hash of the bytes from
\* offset 4 to the end.
C19_V3ParseSucceeds ==
    (InParseVM3 /\ Whole /\ last.arg.body # "short") =>
        /\ last.out.ok
        /\ last.out.vm.observation = ObservationOfBody(last.arg.body)
        /\ last.out.vm.hash = DoubleHash(BodyOf(last.arg.body))

\* bytes of a header with the signatures of the call: version,
\* guardianSetIndex, signer count and 66 bytes per signature
HeaderBytes == 6 + SignatureSize * Len(last.arg.sigs.idx)

MalformedReasons == {"truncated", "Insufficient observation length"}

\* C20: a parser given fewer bytes than the message needs aborts and yields
\* no message: parseVM below header + 51 bytes, parseVM2 below header + the
\* count byte and the hashes it announces, parseVM3 below 4 + 51 bytes; and
\* a message that is returned lies within the bytes given.
C20_ShortBufferIsRefused ==
    /\ (InParseVM /\ ~Whole)
       => /\ last.arg.keep < HeaderBytes + ObservationPrefix
             => /\ ~last.out.ok /\ last.out.err \in MalformedReasons
                /\ "vm" \notin DOMAIN last.out
          /\ last.out.ok
             => Len(last.out.vm.payload)
                  = last.arg.keep - HeaderBytes - ObservationPrefix
    /\ (InParseVM2 /\ ~Whole)
       => /\ last.arg.keep < HeaderBytes + 1 + 32 * Len(last.arg.hashes)
             => /\ ~last.out.ok /\ last.out.err \in MalformedReasons
                /\ "vm" \notin DOMAIN last.out
          /\ last.out.ok
             => last.arg.keep >= HeaderBytes + 1
                                   + 32 * Len(last.out.vm.header.hashes)
    /\ (InParseVM3 /\ ~Whole)
       => (last.arg.keep < 4 + ObservationPrefix
             => /\ ~last.out.ok /\ last.out.err \in MalformedReasons
                /\ "vm" \notin DOMAIN last.out)

\* C20 witness: a one-signature message cut in the last byte of the
\* observation prefix
C20_Witness ==
    /\ InParseVM /\ ~Whole /\ Len(last.arg.sigs.idx) = 1
    /\ last.arg.keep = HeaderBytes + ObservationPrefix - 1
    /\ ThrownWith("truncated")

\* the hashes listed by the header a parseAndVerifyVM2 call parsed (none
\* when the call reverted)
MarkedBy(out) ==
    IF out.ok THEN {out.ret.header.hashes[i] : i \in DOMAIN out.ret.header.hashes}
    ELSE {}

InBatch == pc # "idle" /\ last.op = "parseAndVerifyVM2"

\* C21: two parseAndVerifyVM2 calls made together are executed one after
\* the other, in either order; after both, the cache is the cache before
\* them plus every hash that either header lists, so a hash listed by both
\* is marked; and a lookup in between sees the cache before the first call
\* or after the whole of it.
C21_NoLostMark ==
    /\ (InBatch /\ pc = "called")
       => verifiedHashes = last.before \cup MarkedBy(last.out)
    /\ (InBatch /\ pc = "repeated")
       => /\ verifiedHashes
               = last.before \cup MarkedBy(last.out) \cup MarkedBy(second.out)
          /\ \A h \in MarkedBy(last.out) \cap MarkedBy(second.out) :
                verifiedHashCached(verifiedHashes, h)
    /\ InVerifyVM3
       => (last.out.valid <=> HashOf(last.arg.hash) \in verifiedHashes)

\* C21 witness: two batches that list different hashes and share HashA, which
\* was not marked before, have both been accepted
C21_Witness ==
    /\ InBatch /\ pc = "repeated"
    /\ last.out.ok /\ last.out.valid /\ second.out.ok /\ second.out.valid
    /\ MarkedBy(last.out) # MarkedBy(second.out)
    /\ HashA \in MarkedBy(last.out) \cap MarkedBy(second.out)
    /\ HashA \notin last.before
    /\ HashA \in verifiedHashes

\* some entry of the list is out of order or out of range
OrderOrRangeViolated ==
    \E i \in 1..Len(CallSigs) : OutOfOrder(i) \/ OutOfRange(i)

\* the call ended with the order failure or the range failure
OrderOrRangeFailure ==
    \/ ThrownWith("signature indices must be ascending")
    \/ ThrownWith("guardian index out of bounds")
    \/ ReturnedPair(FALSE, "signature indices must be ascending")
    \/ ReturnedPair(FALSE, "guardian index out of bounds")

\* C22 (as claimed): verify reports the first failing step in the order
\* cache, zero-key set, expiry, quorum, order and range of the whole list,
\* recovery: a list with an order or range violation at any position ends
\* with that failure, never with "VM signature invalid".
C22_OrderAndRangeBeforeRecovery ==
    (InVerify /\ Uncached) =>
        /\ Len(CallKeys) = 0 => ReturnedPair(FALSE, "invalid guardian set")
        /\ (Len(CallKeys) > 0 /\ CallSetExpired)
           => ReturnedPair(FALSE, "guardian set has expired")
        /\ (ReachesWalk /\ OrderOrRangeViolated) => OrderOrRangeFailure

\* the first entry of the list that is out of order, out of range or does
\* not recover its guardian's key (0: none)
FirstDefect ==
    IF \A i \in 1..Len(CallSigs) : ~OutOfOrder(i) /\ Recovers(i) THEN 0
    ELSE CHOOSE i \in 1..Len(CallSigs) :
            /\ OutOfOrder(i) \/ ~Recovers(i)
            /\ CleanBefore(i)

\* C22 (amended): verify reports the first failing step in the order cache,
\* zero-key set, expiry, size of the set, quorum, and then entry by entry in
\* list order: order, range, recovery of that entry.  A signature that does
\* not recover ends the call with "VM signature invalid" although a later
\* entry is out of order or out of range; order and range failures abort.
C22_FirstFailingStepInWalkOrder ==
    InVerify =>
        IF ~Uncached THEN ReturnedPair(TRUE, "")
        ELSE IF Len(CallKeys) = 0
        THEN ReturnedPair(FALSE, "invalid guardian set")
        ELSE IF CallSetExpired
        THEN ReturnedPair(FALSE, "guardian set has expired")
        ELSE IF Len(CallKeys) >= 256 THEN ThrownWith("too many guardians")
        ELSE IF Len(CallSigs) < ((2 * Len(CallKeys)) \div 3) + 1
        THEN ReturnedPair(FALSE, "no quorum")
        ELSE IF FirstDefect = 0 THEN ReturnedPair(TRUE, "")
        ELSE IF OutOfOrder(FirstDefect)
        THEN ThrownWith("signature indices must be ascending")
        ELSE IF OutOfRange(FirstDefect)
        THEN ThrownWith("guardian index out of bounds")
        ELSE ReturnedPair(FALSE, "VM signature invalid")

\* C22 witness: the first signature does not recover, a later entry is out
\* of order, and the call answered "VM signature invalid"
C22_Witness ==
    /\ InVerify /\ Uncached /\ ReachesWalk
    /\ FirstDefect = 1
    /\ \E i \in 2..Len(CallSigs) : OutOfOrder(i)
    /\ ReturnedPair(FALSE, "VM signature invalid")

\* C22 witness of the expiry step: an expired old set with too few
\* signatures
C22_ExpiredBeforeQuorum ==
    /\ InVerify /\ Uncached /\ CallSetExpired
    /\ Len(CallSigs) < ((2 * Len(CallKeys)) \div 3) + 1
    /\ ReturnedPair(FALSE, "guardian set has expired")

\* C23: parseVM2 extracts from a batch that carries the observations whose
\* hashes it lists each observation behind the marker 3; the unified entry
\* decodes such an entry to its observation and answers (true, "") while
\* the observation's hash is marked, and (false, "Could not find hash in
\* cache") when it is not (before the batch is accepted, or after it is
\* wiped).
C23_BatchEntriesVerify ==
    /\ (InParseVM2 /\ "obs" \in DOMAIN last.arg)
       => /\ last.out.ok
          /\ last.out.vm.observations
               = [i \in 1..Len(last.arg.hashes) |->
                     <<3>> \o BodyOf(last.arg.hashes[i])]
    /\ (InVAA /\ "tagged" \in DOMAIN last.arg)
       => IF HashOf(last.arg.body) \in verifiedHashes
          THEN /\ ReturnedPair(TRUE, "")
               /\ last.out.ret = ObservationOfBody(last.arg.body)
          ELSE ReturnedPair(FALSE, "Could not find hash in cache")

\* C24: parseVM2 of a buffer whose hashesLen byte is n, followed by room
\* for n entries of 32 bytes, returns n hashes, for every n the byte can
\* hold.
C24_EveryHashCountParses ==
    (InParseVM2 /\ "count" \in DOMAIN last.arg)
    => /\ last.out.ok
       /\ Len(last.out.vm.header.hashes) = last.arg.count

\* C25: verify never answers "guardian set has expired" for a guardian set
\* whose expirationTime is 0, be it the current set or not.
C25_ZeroExpirationIsActive ==
    (InVerify /\ Len(CallKeys) > 0 /\ CallSet.expirationTime = 0)
    => ~ReturnedPair(FALSE, "guardian set has expired")

\* C26: verifySignatures called with an empty signature list returns
\* (true, "") for every hash and every guardian set, the set without keys
\* included, and recovers no signature; verify on an uncached hash never
\* returns valid = true for an empty signature list.
C26_EmptyListPassesOnlyTheWalk ==
    /\ (InVerifySignatures /\ Len(CallSigs) = 0)
       => (ReturnedPair(TRUE, "") /\ last.out.recovered = 0)
    /\ (InVerify /\ Uncached /\ Len(CallSigs) = 0)
       => ~(last.out.ok /\ last.out.valid)

\* C26 witness: verifySignatures has accepted an empty list for the other
\* hash under the set without keys
C26_Witness ==
    /\ InVerifySignatures /\ Len(CallSigs) = 0 /\ Len(CallKeys) = 0
    /\ last.arg.hash = "B"
    /\ ReturnedPair(TRUE, "")

\* C27: when every batch submitted so far carried no guardian signature,
\* no verification is answered valid = true through the cache: verifyVM3
\* never returns true, and verifyVM returns true only for a hash whose own
\* signatures are in order, recover their guardians' keys and make a quorum
\* of a guardian set that is not expired.
C27_UnsignedBatchesForgeNothing ==
    /\ InVerifyVM3 => ~last.out.valid
    /\ (InVerify /\ last.out.ok /\ last.out.valid)
       => /\ 0 < Len(CallKeys) /\ Len(CallKeys) < 256
          /\ ~CallSetExpired
          /\ Len(CallSigs) >= ((2 * Len(CallKeys)) \div 3) + 1
          /\ \A i \in 1..Len(CallSigs) : ~OutOfOrder(i) /\ Recovers(i)

=============================================================================
